---- MODULE Spec2Model ----
(***************************************************************************)
(* N-in-a-row (tic-tac-toe) on an N x N board, N in 3..6: the Board class, *)
(* the minimax search engine with alpha-beta pruning, and the game driver  *)
(* of script.cpp.                                                          *)
(*                                                                         *)
(* A board is the record [size, cells, winLines] of the Board object.      *)
(* cells maps the indices 0..size*size-1 to a char; chars are one-letter   *)
(* strings, and the char '\0' is the string "NUL".  The search functions   *)
(* take the board by reference and write to it, so minimax and getBestMove *)
(* return the board they leave behind together with their result.          *)
(***************************************************************************)
EXTENDS Integers, Sequences, FiniteSets, TLC

VARIABLES board, engine, currentPlayer, pc, message, call

vars == <<board, engine, currentPlayer, pc, message, call>>

-----------------------------------------------------------------------------
(* Program constants *)

EMPTY == " "
X == "X"
O == "O"
DRAW == "D"
NOWINNER == "NUL"

WIN_SCORE == 1000000
LOSS_SCORE == -1000000
INT_MAX == 2147483647
INT_MIN == -INT_MAX - 1

MinSize == 3
MaxSize == 6

humanSym == O
aiSym == X

InvalidSizeText == "Board size must be between 3 and 6"

-----------------------------------------------------------------------------
(* Bounds of the model *)

\* sizes tried at construction: MinSize - SizeMargin .. MaxSize + SizeMargin
SizeMargin == 2
\* BoardSpec: at most this many non-EMPTY cells are written
MaxMarks == 2
\* input boards of size 4..6: cells 0..h-1 are emptied, h <= MaxHoles
MaxHoles == 3
\* search depths given as input: 0..MaxDepthIn and the configured depth
MaxDepthIn == 1
\* a search deeper than 0 plies is run on boards with at most this many
\* empty cells
MaxSearchEmpty == 5

-----------------------------------------------------------------------------
(* Board *)

\* generateWinLines with the anti-diagonal taken one column to the right
generateWinLinesShifted(n) ==
    [r \in 1..n |-> [c \in 1..n |-> (r - 1) * n + (c - 1)]]
    \o [c \in 1..n |-> [r \in 1..n |-> (r - 1) * n + (c - 1)]]
    \o << [i \in 1..n |-> (i - 1) * n + (i - 1)],
          [i \in 1..n |-> (i - 1) * n + (n - (i - 1))] >>

\* generateWinLines without the anti-diagonal
generateWinLinesOneDiagonal(n) ==
    [r \in 1..n |-> [c \in 1..n |-> (r - 1) * n + (c - 1)]]
    \o [c \in 1..n |-> [r \in 1..n |-> (r - 1) * n + (c - 1)]]
    \o << [i \in 1..n |-> (i - 1) * n + (i - 1)] >>

\* lines 21-47: the rows, the columns, the main diagonal, the anti-diagonal
generateWinLines(n) ==
    [r \in 1..n |-> [c \in 1..n |-> (r - 1) * n + (c - 1)]]
    \o [c \in 1..n |-> [r \in 1..n |-> (r - 1) * n + (c - 1)]]
    \o << [i \in 1..n |-> (i - 1) * n + (i - 1)],
          [i \in 1..n |-> (i - 1) * n + (n - 1 - (i - 1))] >>

NoBoard == [size |-> 0, cells |-> << >>, winLines |-> << >>]

\* Board::Board without the upper limit of the size test
BoardCtorNoUpper(boardSize) ==
    IF boardSize < MinSize
    THEN [thrown |-> TRUE, what |-> InvalidSizeText, board |-> NoBoard]
    ELSE [thrown |-> FALSE, what |-> "",
          board |-> [size |-> boardSize,
                     cells |-> [i \in 0..(boardSize * boardSize - 1) |-> EMPTY],
                     winLines |-> generateWinLines(boardSize)]]

\* Board::Board: the board built, or the exception thrown
BoardCtor(boardSize) ==
    IF boardSize < MinSize \/ boardSize > MaxSize
    THEN [thrown |-> TRUE, what |-> InvalidSizeText, board |-> NoBoard]
    ELSE [thrown |-> FALSE, what |-> "",
          board |-> [size |-> boardSize,
                     cells |-> [i \in 0..(boardSize * boardSize - 1) |-> EMPTY],
                     winLines |-> generateWinLines(boardSize)]]

get(b, index) == b.cells[index]

set(b, index, symbol) == [b EXCEPT !.cells[index] = symbol]

isEmpty(b, index) == b.cells[index] = EMPTY

isFull(b) == \A i \in DOMAIN b.cells : b.cells[i] # EMPTY

RECURSIVE emptyFrom(_, _)
emptyFrom(b, i) ==
    IF i >= b.size * b.size THEN << >>
    ELSE IF b.cells[i] = EMPTY THEN <<i>> \o emptyFrom(b, i + 1)
         ELSE emptyFrom(b, i + 1)

getEmptyCells(b) == emptyFrom(b, 0)

allSame(b, line) == \A k \in 1..Len(line) : b.cells[line[k]] = b.cells[line[1]]

RECURSIVE scanLines(_, _)

\* checkWinner testing isFull before the win lines
scanLinesFullFirst(b, k) ==
    IF isFull(b) THEN DRAW
    ELSE IF k > Len(b.winLines) THEN NOWINNER
    ELSE IF b.cells[b.winLines[k][1]] # EMPTY /\ allSame(b, b.winLines[k])
         THEN b.cells[b.winLines[k][1]]
         ELSE scanLines(b, k + 1)

\* lines 93-107: the scan from the k-th win line on, then the isFull test
scanLines(b, k) ==
    IF k > Len(b.winLines)
    THEN IF isFull(b) THEN DRAW ELSE NOWINNER
    ELSE IF b.cells[b.winLines[k][1]] # EMPTY /\ allSame(b, b.winLines[k])
         THEN b.cells[b.winLines[k][1]]
         ELSE scanLines(b, k + 1)

checkWinner(b) == scanLines(b, 1)

-----------------------------------------------------------------------------
(* AIEngine *)

max(a, b) == IF a < b THEN b ELSE a
min(a, b) == IF b < a THEN b ELSE a

countOn(b, line, sym) == Cardinality({k \in 1..Len(line) : b.cells[line[k]] = sym})

\* evaluateBoard's line value with the opponent's tiers equal to the engine's
lineScoreSymmetric(eng, b, line) ==
    LET n == b.size
        myCount == countOn(b, line, eng.aiSymbol)
        oppCount == countOn(b, line, eng.humanSymbol)
    IN IF myCount > 0 /\ oppCount > 0 THEN 0
       ELSE (IF myCount > 0
             THEN IF myCount = n THEN WIN_SCORE
                  ELSE IF myCount = n - 1 THEN 50000
                  ELSE IF myCount = n - 2 THEN 1000
                  ELSE IF myCount >= 2 THEN 10
                  ELSE 0
             ELSE 0)
          - (IF oppCount > 0
             THEN IF oppCount = n THEN WIN_SCORE
                  ELSE IF oppCount = n - 1 THEN 50000
                  ELSE IF oppCount = n - 2 THEN 1000
                  ELSE IF oppCount >= 2 THEN 20
                  ELSE 0
             ELSE 0)

\* evaluateBoard's line value with the tier n - 1 worth ten times as much
lineScoreHeavy(eng, b, line) ==
    LET n == b.size
        myCount == countOn(b, line, eng.aiSymbol)
        oppCount == countOn(b, line, eng.humanSymbol)
    IN IF myCount > 0 /\ oppCount > 0 THEN 0
       ELSE (IF myCount > 0
             THEN IF myCount = n THEN WIN_SCORE
                  ELSE IF myCount = n - 1 THEN 500000
                  ELSE IF myCount = n - 2 THEN 1000
                  ELSE IF myCount >= 2 THEN 10
                  ELSE 0
             ELSE 0)
          - (IF oppCount > 0
             THEN IF oppCount = n THEN WIN_SCORE
                  ELSE IF oppCount = n - 1 THEN 550000
                  ELSE IF oppCount = n - 2 THEN 2000
                  ELSE IF oppCount >= 2 THEN 20
                  ELSE 0
             ELSE 0)

\* lines 202-224: the value of one win line
lineScore(eng, b, line) ==
    LET n == b.size
        myCount == countOn(b, line, eng.aiSymbol)
        oppCount == countOn(b, line, eng.humanSymbol)
    IN IF myCount > 0 /\ oppCount > 0 THEN 0
       ELSE (IF myCount > 0
             THEN IF myCount = n THEN WIN_SCORE
                  ELSE IF myCount = n - 1 THEN 50000
                  ELSE IF myCount = n - 2 THEN 1000
                  ELSE IF myCount >= 2 THEN 10
                  ELSE 0
             ELSE 0)
          - (IF oppCount > 0
             THEN IF oppCount = n THEN WIN_SCORE
                  ELSE IF oppCount = n - 1 THEN 55000
                  ELSE IF oppCount = n - 2 THEN 2000
                  ELSE IF oppCount >= 2 THEN 20
                  ELSE 0
             ELSE 0)

RECURSIVE sumLines(_, _, _)
sumLines(eng, b, k) ==
    IF k > Len(b.winLines) THEN 0
    ELSE lineScore(eng, b, b.winLines[k]) + sumLines(eng, b, k + 1)

evaluateBoard(eng, b) == sumLines(eng, b, 1)

\* a search returns its value (or move), the board as it leaves it, and the
\* number of evaluateBoard calls it made
RECURSIVE minimax(_, _, _, _, _, _)
RECURSIVE maxLoop(_, _, _, _, _, _, _, _)
RECURSIVE minLoop(_, _, _, _, _, _, _, _)

\* the maximizing loop with the retraction placed after the cutoff test
maxLoopLateRetract(eng, b, depth, alpha, beta, emptyCells, k, maxEval) ==
    IF k > Len(emptyCells) THEN [val |-> maxEval, board |-> b, evals |-> 0]
    ELSE LET i == emptyCells[k]
             r == minimax(eng, set(b, i, eng.aiSymbol), depth - 1, alpha, beta, FALSE)
             newMax == max(maxEval, r.val)
             newAlpha == max(alpha, r.val)
         IN IF beta <= newAlpha
            THEN [val |-> newMax, board |-> r.board, evals |-> r.evals]
            ELSE [maxLoop(eng, set(r.board, i, EMPTY), depth, newAlpha, beta,
                         emptyCells, k + 1, newMax)
                    EXCEPT !.evals = @ + r.evals]

\* lines 240-249: the loop from its k-th empty cell on
maxLoop(eng, b, depth, alpha, beta, emptyCells, k, maxEval) ==
    IF k > Len(emptyCells) THEN [val |-> maxEval, board |-> b, evals |-> 0]
    ELSE LET i == emptyCells[k]
             r == minimax(eng, set(b, i, eng.aiSymbol), depth - 1, alpha, beta, FALSE)
             retracted == set(r.board, i, EMPTY)
             newMax == max(maxEval, r.val)
             newAlpha == max(alpha, r.val)
         IN IF beta <= newAlpha
            THEN [val |-> newMax, board |-> retracted, evals |-> r.evals]
            ELSE [maxLoop(eng, retracted, depth, newAlpha, beta,
                         emptyCells, k + 1, newMax)
                    EXCEPT !.evals = @ + r.evals]

\* the minimizing loop with the operands of the cutoff test exchanged
minLoopSwappedTest(eng, b, depth, alpha, beta, emptyCells, k, minEval) ==
    IF k > Len(emptyCells) THEN [val |-> minEval, board |-> b, evals |-> 0]
    ELSE LET i == emptyCells[k]
             r == minimax(eng, set(b, i, eng.humanSymbol), depth - 1, alpha, beta, TRUE)
             retracted == set(r.board, i, EMPTY)
             newMin == min(minEval, r.val)
             newBeta == min(beta, r.val)
         IN IF alpha <= newBeta
            THEN [val |-> newMin, board |-> retracted, evals |-> r.evals]
            ELSE [minLoop(eng, retracted, depth, alpha, newBeta,
                         emptyCells, k + 1, newMin)
                    EXCEPT !.evals = @ + r.evals]

\* lines 251-260
minLoop(eng, b, depth, alpha, beta, emptyCells, k, minEval) ==
    IF k > Len(emptyCells) THEN [val |-> minEval, board |-> b, evals |-> 0]
    ELSE LET i == emptyCells[k]
             r == minimax(eng, set(b, i, eng.humanSymbol), depth - 1, alpha, beta, TRUE)
             retracted == set(r.board, i, EMPTY)
             newMin == min(minEval, r.val)
             newBeta == min(beta, r.val)
         IN IF newBeta <= alpha
            THEN [val |-> newMin, board |-> retracted, evals |-> r.evals]
            ELSE [minLoop(eng, retracted, depth, alpha, newBeta,
                         emptyCells, k + 1, newMin)
                    EXCEPT !.evals = @ + r.evals]

\* minimax with the two terminal constants exchanged
minimaxSwapped(eng, b, depth, alpha, beta, isMaximizing) ==
    LET winner == checkWinner(b) IN
    IF winner = eng.aiSymbol THEN [val |-> LOSS_SCORE, board |-> b, evals |-> 0]
    ELSE IF winner = eng.humanSymbol THEN [val |-> WIN_SCORE, board |-> b, evals |-> 0]
    ELSE IF winner = DRAW THEN [val |-> 0, board |-> b, evals |-> 0]
    ELSE IF depth = 0 THEN [val |-> evaluateBoard(eng, b), board |-> b, evals |-> 1]
    ELSE IF isMaximizing
         THEN maxLoop(eng, b, depth, alpha, beta, getEmptyCells(b), 1, INT_MIN)
         ELSE minLoop(eng, b, depth, alpha, beta, getEmptyCells(b), 1, INT_MAX)

\* minimax running the minimizing loop on the engine's turn and vice versa
minimaxInverted(eng, b, depth, alpha, beta, isMaximizing) ==
    LET winner == checkWinner(b) IN
    IF winner = eng.aiSymbol THEN [val |-> WIN_SCORE, board |-> b, evals |-> 0]
    ELSE IF winner = eng.humanSymbol THEN [val |-> LOSS_SCORE, board |-> b, evals |-> 0]
    ELSE IF winner = DRAW THEN [val |-> 0, board |-> b, evals |-> 0]
    ELSE IF depth = 0 THEN [val |-> evaluateBoard(eng, b), board |-> b, evals |-> 1]
    ELSE IF ~isMaximizing
         THEN maxLoop(eng, b, depth, alpha, beta, getEmptyCells(b), 1, INT_MIN)
         ELSE minLoop(eng, b, depth, alpha, beta, getEmptyCells(b), 1, INT_MAX)

minimax(eng, b, depth, alpha, beta, isMaximizing) ==
    LET winner == checkWinner(b) IN
    IF winner = eng.aiSymbol THEN [val |-> WIN_SCORE, board |-> b, evals |-> 0]
    ELSE IF winner = eng.humanSymbol THEN [val |-> LOSS_SCORE, board |-> b, evals |-> 0]
    ELSE IF winner = DRAW THEN [val |-> 0, board |-> b, evals |-> 0]
    ELSE IF depth = 0 THEN [val |-> evaluateBoard(eng, b), board |-> b, evals |-> 1]
    ELSE IF isMaximizing
         THEN maxLoop(eng, b, depth, alpha, beta, getEmptyCells(b), 1, INT_MIN)
         ELSE minLoop(eng, b, depth, alpha, beta, getEmptyCells(b), 1, INT_MAX)

RECURSIVE bestLoop(_, _, _, _, _, _)

\* the move loop with >= in place of > (the last best cell wins a tie)
bestLoopLastWins(eng, b, emptyCells, k, bestScore, bestMove) ==
    IF k > Len(emptyCells) THEN [move |-> bestMove, board |-> b, evals |-> 0]
    ELSE LET i == emptyCells[k]
             r == minimax(eng, set(b, i, eng.aiSymbol), eng.maxDepth,
                          INT_MIN, INT_MAX, FALSE)
             retracted == set(r.board, i, EMPTY)
         IN IF r.val >= bestScore
            THEN [bestLoop(eng, retracted, emptyCells, k + 1, r.val, i)
                    EXCEPT !.evals = @ + r.evals]
            ELSE [bestLoop(eng, retracted, emptyCells, k + 1, bestScore, bestMove)
                    EXCEPT !.evals = @ + r.evals]

\* lines 268-277: the loop from its k-th empty cell on
bestLoop(eng, b, emptyCells, k, bestScore, bestMove) ==
    IF k > Len(emptyCells) THEN [move |-> bestMove, board |-> b, evals |-> 0]
    ELSE LET i == emptyCells[k]
             r == minimax(eng, set(b, i, eng.aiSymbol), eng.maxDepth,
                          INT_MIN, INT_MAX, FALSE)
             retracted == set(r.board, i, EMPTY)
         IN IF r.val > bestScore
            THEN [bestLoop(eng, retracted, emptyCells, k + 1, r.val, i)
                    EXCEPT !.evals = @ + r.evals]
            ELSE [bestLoop(eng, retracted, emptyCells, k + 1, bestScore, bestMove)
                    EXCEPT !.evals = @ + r.evals]

\* getBestMove starting from a best score of 0 instead of INT_MIN
getBestMoveFromZero(eng, b) == bestLoop(eng, b, getEmptyCells(b), 1, 0, -1)

getBestMove(eng, b) == bestLoop(eng, b, getEmptyCells(b), 1, INT_MIN, -1)

\* getMaxDepth without the case of size 3, which then takes the default
getMaxDepthNoFullSolve(boardSize) ==
    CASE boardSize = 4 -> 6
      [] boardSize = 5 -> 5
      [] boardSize = 6 -> 4
      [] OTHER -> 4

\* lines 291-299
getMaxDepth(boardSize) ==
    CASE boardSize = 3 -> 100
      [] boardSize = 4 -> 6
      [] boardSize = 5 -> 5
      [] boardSize = 6 -> 4
      [] OTHER -> 4

\* AIPlayer as Game constructs it: ai('X', 'O', boardSize)
AIEngine(aiSymbol, humanSymbol, depth) ==
    [aiSymbol |-> aiSymbol, humanSymbol |-> humanSymbol, maxDepth |-> depth]

\* the last call made from outside: its name, arguments and return value
NoCall == [op |-> "none", arg |-> 0, alpha |-> 0, beta |-> 0,
           isMaximizing |-> FALSE, ret |-> 0, evals |-> 0]

-----------------------------------------------------------------------------
(* Game: the driver loop of Game::play on a board of size 3 *)

GameSizes == {MinSize}

Players == {"human", "ai"}

\* the switch of lines 366-367 always handing the turn to the engine
otherAlwaysAI(player) == "ai"

other(player) == IF player = "human" THEN "ai" ELSE "human"

\* HumanPlayer::getMove returns only an index in range whose cell is EMPTY
HumanMoves(b) == {move \in 0..(b.size * b.size - 1) : isEmpty(b, move)}

\* lines 350-367 that never leave the loop
ApplyNoBreak(b, move, symbol) ==
    /\ board' = set(b, move, symbol)
    /\ pc' = "loop"
    /\ message' = message
    /\ currentPlayer' = other(currentPlayer)

\* lines 350-367: apply the move, check the winner, break or switch player
Apply(b, move, symbol) ==
    LET nb == set(b, move, symbol)
        winner == checkWinner(nb)
    IN /\ board' = nb
       /\ IF winner # NOWINNER
          THEN /\ pc' = "done"
               /\ message' = (IF winner = humanSym THEN "You Win!"
                              ELSE IF winner = aiSym THEN "AI Wins!"
                              ELSE "It's a Draw!")
               /\ currentPlayer' = currentPlayer
          ELSE /\ pc' = "loop"
               /\ message' = message
               /\ currentPlayer' = other(currentPlayer)

\* lines 337-347: the report made at the top of the loop on a full board
FullReport ==
    LET result == checkWinner(board)
    IN /\ board' = board
       /\ pc' = "done"
       /\ message' = (IF result = aiSym THEN "AI Wins!"
                      ELSE IF result = humanSym THEN "You Win!"
                      ELSE "It's a Draw! Game Over.")
       /\ currentPlayer' = currentPlayer

\* one iteration of the loop with the human to move
HumanTurn ==
    /\ pc = "loop"
    /\ currentPlayer = "human"
    /\ IF isFull(board)
       THEN FullReport
       ELSE \E move \in HumanMoves(board) : Apply(board, move, humanSym)
    /\ UNCHANGED <<engine, call>>

\* one iteration of the loop with the engine to move
AITurn ==
    /\ pc = "loop"
    /\ currentPlayer = "ai"
    /\ IF isFull(board)
       THEN FullReport
       ELSE \E r \in {getBestMove(engine, board)} :
               Apply(r.board, r.move, aiSym)
    /\ UNCHANGED <<engine, call>>

\* Game(boardSize) constructed, the starting player chosen by rand() % 2
Init ==
    /\ \E boardSize \in GameSizes :
          /\ board = BoardCtor(boardSize).board
          /\ engine = AIEngine(aiSym, humanSym, getMaxDepth(boardSize))
    /\ currentPlayer \in Players
    /\ pc = "loop"
    /\ message = ""
    /\ call = NoCall

Next == HumanTurn \/ AITurn

Spec == Init /\ [][Next]_vars

\* Game::play is one sequential loop: the move source answers every time it
\* is asked, and an iteration of the engine, which can be taken exactly when
\* the loop is at the engine's turn, runs to its end (weak fairness of
\* AITurn, its enabling condition written out)
LiveSpec ==
    /\ Init /\ [][Next]_vars
    /\ WF_vars(HumanTurn)
    /\ ([]<>(pc # "loop" \/ currentPlayer # "ai") \/ []<><<AITurn>>_vars)

\* the same game once the human, starting, has taken the corner 0
CornerInit ==
    /\ board = set(BoardCtor(MinSize).board, 0, humanSym)
    /\ engine = AIEngine(aiSym, humanSym, getMaxDepth(MinSize))
    /\ currentPlayer = "ai"
    /\ pc = "loop"
    /\ message = ""
    /\ call = NoCall

CornerSpec == CornerInit /\ [][Next]_vars

\* the state of the game as the driver reports it
GameState ==
    IF pc = "loop" THEN "InProgress"
    ELSE IF message = "AI Wins!" THEN "WonByEngine"
    ELSE IF message = "You Win!" THEN "WonByOpponent"
    ELSE "Draw"

numMarked(b, symbol) == Cardinality({i \in DOMAIN b.cells : b.cells[i] = symbol})

-----------------------------------------------------------------------------
(* BoardSpec: a Board is constructed, then written to through Board::set *)

SizeInputs == (MinSize - SizeMargin)..(MaxSize + SizeMargin)

Symbols == {X, O}

CellValues == {EMPTY, X, O}

numNonEmpty(b) == Cardinality({i \in DOMAIN b.cells : b.cells[i] # EMPTY})

BoardInit ==
    /\ board = NoBoard
    /\ engine = AIEngine(aiSym, humanSym, 0)
    /\ currentPlayer = "none"
    /\ pc = "new"
    /\ message = ""
    /\ call = NoCall

\* Board(boardSize); main reports the exception's text
Construct ==
    /\ pc = "new"
    /\ \E boardSize \in SizeInputs :
          LET r == BoardCtor(boardSize)
          IN /\ board' = r.board
             /\ pc' = IF r.thrown THEN "thrown" ELSE "constructed"
             /\ message' = r.what
             /\ call' = [NoCall EXCEPT !.op = "Board", !.arg = boardSize]
    /\ UNCHANGED <<engine, currentPlayer>>

\* board.set(index, symbol), any cell and any of the three values
SetCell ==
    /\ pc = "constructed"
    /\ \E index \in DOMAIN board.cells, symbol \in CellValues :
          /\ numNonEmpty(set(board, index, symbol)) <= MaxMarks
          /\ board' = set(board, index, symbol)
    /\ UNCHANGED <<engine, currentPlayer, pc, message, call>>

BoardNext == Construct \/ SetCell

BoardSpec == BoardInit /\ [][BoardNext]_vars

-----------------------------------------------------------------------------
(* FnSpec and SearchSpec: the functions of Board and AIEngine applied once  *)
(* to an input board.  Every board of size 3 is an input; of the sizes 4..6 *)
(* the inputs are the empty board and a full board without a uniform line,  *)
(* each overlaid with the first k cells of one win line in one symbol and   *)
(* with its first h cells emptied, and the two boards on which every win    *)
(* line lacks exactly one cell to be filled with one symbol.                *)

\* a full board in which no row, column or diagonal is uniform
drawPattern(n) ==
    [i \in 0..(n * n - 1) |->
        IF ((i % n) + ((i \div n) \div 2)) % 2 = 0 THEN X ELSE O]

overlay(cells, line, k, symbol) ==
    [i \in DOMAIN cells |->
        IF \E j \in 1..k : line[j] = i THEN symbol ELSE cells[i]]

holes(cells, h) == [i \in DOMAIN cells |-> IF i < h THEN EMPTY ELSE cells[i]]

\* one column per row (n >= 4): every row, every column and each diagonal
\* holds exactly one of the chosen cells
transversal(n) ==
    CHOOSE f \in [0..(n - 1) -> 0..(n - 1)] :
        /\ \A r1, r2 \in 0..(n - 1) : r1 # r2 => f[r1] # f[r2]
        /\ Cardinality({r \in 0..(n - 1) : f[r] = r}) = 1
        /\ Cardinality({r \in 0..(n - 1) : f[r] = n - 1 - r}) = 1

\* the board on which every win line lacks one cell to be filled with symbol
nearWin(n, symbol) ==
    LET f == transversal(n)
    IN [i \in 0..(n * n - 1) |-> IF f[i \div n] = i % n THEN EMPTY ELSE symbol]

InputCells(n) ==
    IF n = MinSize
    THEN [0..(n * n - 1) -> CellValues]
    ELSE LET lines == generateWinLines(n)
         IN { holes(overlay(base, lines[l], k, symbol), h) :
                base \in {BoardCtor(n).board.cells, drawPattern(n)},
                l \in 1..Len(lines), k \in 0..n, symbol \in Symbols,
                h \in 0..MaxHoles }
            \cup { nearWin(n, symbol) : symbol \in Symbols }

InputBoards ==
    UNION { { [BoardCtor(n).board EXCEPT !.cells = c] : c \in InputCells(n) } :
            n \in MinSize..MaxSize }

DepthInputs(n) == (0..MaxDepthIn) \cup {getMaxDepth(n)}

WindowInputs ==
    { <<INT_MIN, INT_MAX>>, <<LOSS_SCORE, 0>> }

\* a search of more than 0 plies is run only where its tree stays small
Searchable(b, depth) == depth = 0 \/ Len(getEmptyCells(b)) <= MaxSearchEmpty

FnInit ==
    /\ board \in InputBoards
    /\ \E depth \in DepthInputs(board.size) :
          engine = AIEngine(aiSym, humanSym, depth)
    /\ currentPlayer = "none"
    /\ pc = "call"
    /\ message = ""
    /\ call = NoCall

CallCheckWinner ==
    /\ pc = "call"
    /\ call' = [NoCall EXCEPT !.op = "checkWinner", !.ret = checkWinner(board)]
    /\ pc' = "returned"
    /\ UNCHANGED <<board, engine, currentPlayer, message>>

CallEvaluateBoard ==
    /\ pc = "call"
    /\ call' = [NoCall EXCEPT !.op = "evaluateBoard",
                             !.ret = evaluateBoard(engine, board), !.evals = 1]
    /\ pc' = "returned"
    /\ UNCHANGED <<board, engine, currentPlayer, message>>

\* minimax(board, depth, alpha, beta, isMaximizing) with depth = maxDepth
CallMinimax ==
    /\ pc = "call"
    /\ Searchable(board, engine.maxDepth)
    /\ \E w \in WindowInputs, isMaximizing \in BOOLEAN :
          \E r \in {minimax(engine, board, engine.maxDepth, w[1], w[2], isMaximizing)} :
             /\ board' = r.board
             /\ call' = [op |-> "minimax", arg |-> engine.maxDepth,
                         alpha |-> w[1], beta |-> w[2],
                         isMaximizing |-> isMaximizing, ret |-> r.val,
                         evals |-> r.evals]
    /\ pc' = "returned"
    /\ UNCHANGED <<engine, currentPlayer, message>>

CallGetBestMove ==
    /\ pc = "call"
    /\ Searchable(board, engine.maxDepth)
    /\ \E r \in {getBestMove(engine, board)} :
          /\ board' = r.board
          /\ call' = [NoCall EXCEPT !.op = "getBestMove", !.ret = r.move,
                                     !.evals = r.evals]
    /\ pc' = "returned"
    /\ UNCHANGED <<engine, currentPlayer, message>>

FnNext == CallCheckWinner \/ CallEvaluateBoard

FnSpec == FnInit /\ [][FnNext]_vars

SearchNext == CallMinimax \/ CallGetBestMove

SearchSpec == FnInit /\ [][SearchNext]_vars

-----------------------------------------------------------------------------
(* Properties *)

\* some win line of b is completely filled with symbol
hasLine(b, symbol) ==
    \E k \in 1..Len(b.winLines) :
        \A j \in 1..Len(b.winLines[k]) : b.cells[b.winLines[k][j]] = symbol

\* the numbers of the win lines of b completely filled with one symbol
uniformLines(b) ==
    {k \in 1..Len(b.winLines) :
        \E symbol \in Symbols :
            \A j \in 1..Len(b.winLines[k]) : b.cells[b.winLines[k][j]] = symbol}

\* the first win line, in generation order, that is completely filled
firstUniform(b) == CHOOSE k \in uniformLines(b) : \A j \in uniformLines(b) : k <= j

noEmptyCell(b) == \A i \in DOMAIN b.cells : b.cells[i] \in Symbols

emptySet(b) == {i \in DOMAIN b.cells : b.cells[i] = EMPTY}

\* the score getBestMove gives to the empty cell i
scoreOf(eng, b, i) ==
    minimax(eng, set(b, i, eng.aiSymbol), eng.maxDepth, INT_MIN, INT_MAX, FALSE).val

\* C1: in a game on the size-3 board, from the empty board and with either
\* player starting, in which the engine moves by getBestMove and the human
\* plays any legal moves, checkWinner never equals the human's symbol and
\* the game ends as an engine win or a draw.
C1_EngineNeverLoses ==
    /\ checkWinner(board) # humanSym
    /\ pc = "done" => GameState \in {"WonByEngine", "Draw"}

\* a game the human started (five O on the full board) ended in a draw
C1_Witness ==
    /\ pc = "done"
    /\ GameState = "Draw"
    /\ numMarked(board, humanSym) = 5
    /\ numMarked(board, aiSym) = 4

\* C2: when minimax or getBestMove returns, every cell of the board holds
\* the value it held before the call, also when a cutoff ended a loop early.
C2_BoardRestored ==
    [][call'.op \in {"minimax", "getBestMove"} => board' = board]_vars

\* a minimax call whose result differs from the full-window result, so that
\* a cutoff has ended one of its loops early
C2_Witness ==
    /\ call.op = "minimax"
    /\ call.arg > 0
    /\ call.ret # minimax(engine, board, call.arg, INT_MIN, INT_MAX,
                          call.isMaximizing).val

C4_Original ==
    (call.op = "minimax" /\ call.arg > 0 /\ hasLine(board, aiSym))
        => call.ret = WIN_SCORE

\* C4 amended: on every board with a win line completely filled with the
\* engine's symbol that no line completely filled with the opponent's symbol
\* precedes in the scan order, minimax with depth > 0 and either side to move
\* returns +1,000,000; where an opponent's line comes first it returns
\* -1,000,000.
C4_TerminalOverride ==
    (call.op = "minimax" /\ call.arg > 0 /\ hasLine(board, aiSym)) =>
        IF board.cells[board.winLines[firstUniform(board)][1]] = aiSym
        THEN call.ret = WIN_SCORE
        ELSE call.ret = LOSS_SCORE

\* minimax returned the win constant on a board with an engine line whose
\* heuristic value is another number
C4_Witness ==
    /\ call.op = "minimax"
    /\ call.arg > 0
    /\ hasLine(board, aiSym)
    /\ ~hasLine(board, humanSym)
    /\ call.ret = WIN_SCORE
    /\ evaluateBoard(engine, board) # WIN_SCORE

\* C5: on a board with an empty cell getBestMove returns the lowest index
\* among the empty cells whose score is the maximum score over the empty
\* cells.
C5_LowestBest ==
    (call.op = "getBestMove" /\ emptySet(board) # {}) =>
        /\ call.ret \in emptySet(board)
        /\ LET best == scoreOf(engine, board, call.ret)
           IN \A i \in emptySet(board) :
                 LET score == scoreOf(engine, board, i)
                 IN /\ score <= best
                    /\ score = best => call.ret <= i

\* getBestMove kept the first of two cells that tie for the best score
C5_Witness ==
    /\ call.op = "getBestMove"
    /\ call.ret \in emptySet(board)
    /\ \E i \in emptySet(board) :
          /\ i > call.ret
          /\ scoreOf(engine, board, i) = scoreOf(engine, board, call.ret)

\* C6: getBestMove returns -1 on a board without an empty cell, otherwise
\* the index of a cell that is EMPTY, whatever the board and maxDepth; no
\* score returned by minimax equals INT_MIN.
C6_LegalMoveOrSentinel ==
    /\ call.op = "getBestMove" =>
          IF emptySet(board) = {}
          THEN call.ret = -1
          ELSE /\ call.ret \in 0..(board.size * board.size - 1)
               /\ board.cells[call.ret] = EMPTY
    /\ call.op = "minimax" => call.ret # INT_MIN

\* getBestMove returned a legal move where every empty cell scores a loss
C6_Witness ==
    /\ call.op = "getBestMove"
    /\ call.ret \in emptySet(board)
    /\ \A i \in emptySet(board) : scoreOf(engine, board, i) = LOSS_SCORE

\* C7: constructing a Board fails with invalid_argument and yields no board
\* for every size outside 3..6, and for every size in 3..6 yields a board of
\* size*size cells, all EMPTY, with its win lines built.
C7_Construction ==
    [][pc = "new" =>
         IF call'.arg >= 3 /\ call'.arg <= 6
         THEN /\ pc' = "constructed"
              /\ board'.size = call'.arg
              /\ DOMAIN board'.cells = 0..(call'.arg * call'.arg - 1)
              /\ \A i \in DOMAIN board'.cells : board'.cells[i] = EMPTY
              /\ Len(board'.winLines) = 2 * call'.arg + 2
         ELSE /\ pc' = "thrown"
              /\ board' = NoBoard
              /\ message' = InvalidSizeText]_vars

\* the construction of a board of size 7 has thrown
C7_Witness ==
    /\ pc = "thrown"
    /\ call.op = "Board"
    /\ call.arg = 7

\* C8: the game goes from InProgress to exactly one of WonByEngine,
\* WonByOpponent, Draw; the terminal state is entered exactly when
\* checkWinner is not '\0' right after a move is applied; no step leaves a
\* terminal state, so no move is applied once checkWinner has returned a
\* symbol or Draw.
C8_GameStateMachine ==
    [][/\ GameState = "InProgress"
       /\ checkWinner(board) = NOWINNER
       /\ \E i \in emptySet(board), symbol \in Symbols : board' = set(board, i, symbol)
       /\ GameState' \in {"InProgress", "WonByEngine", "WonByOpponent", "Draw"}
       /\ GameState' = "InProgress" <=> checkWinner(board') = NOWINNER
       /\ GameState' = "WonByEngine" <=> checkWinner(board') = aiSym
       /\ GameState' = "WonByOpponent" <=> checkWinner(board') = humanSym
       /\ GameState' = "Draw" <=> checkWinner(board') = DRAW]_vars

\* a game has ended with the engine's win
C8_Witness ==
    /\ GameState = "WonByEngine"
    /\ checkWinner(board) = aiSym

\* the board X X _ / O O _ / _ _ _
C9_Cells == <<X, X, EMPTY, O, O, EMPTY, EMPTY, EMPTY, EMPTY>>

C9_Given ==
    /\ board.size = 3
    /\ \A i \in 0..8 : board.cells[i] = C9_Cells[i + 1]
    /\ call.op = "getBestMove"

\* C9: on the size-3 board with X at 0 and 1, O at 3 and 4, the engine
\* playing X returns index 2 from getBestMove.
C9_TakesTheWin == C9_Given => call.ret = 2

\* getBestMove has returned on that board with the size-3 depth
C9_Witness == C9_Given /\ engine.maxDepth = 100 /\ call.ret = 2

\* C10: on the size-3 board whose only mark is O at 0 the engine's reply is
\* not an edge-centre cell (1, 3, 5, 7), and from the position after it no
\* play of the opponent reaches a board on which checkWinner is O.
C10_CornerReply ==
    /\ (numMarked(board, aiSym) = 1 /\ numMarked(board, humanSym) = 1)
          => \A i \in {1, 3, 5, 7} : board.cells[i] # aiSym
    /\ checkWinner(board) # humanSym

\* the position right after the engine's reply to O at 0
C10_Witness ==
    /\ board.cells[0] = humanSym
    /\ numMarked(board, aiSym) = 1
    /\ numMarked(board, humanSym) = 1
    /\ currentPlayer = "human"
    /\ pc = "loop"

\* C11: a constructed board of size n has 2n+2 win lines of n distinct
\* indices of the board each: the n rows, then the n columns, then the main
\* diagonal, then the anti-diagonal; writing cells never changes them.
C11_Shape ==
    pc = "constructed" =>
        LET n == board.size
            L == board.winLines
            cellsOf(k) == {L[k][j] : j \in 1..Len(L[k])}
            all == 0..(n * n - 1)
        IN /\ n \in MinSize..MaxSize
           /\ Len(L) = 2 * n + 2
           /\ \A k \in 1..Len(L) :
                 /\ Len(L[k]) = n
                 /\ Cardinality(cellsOf(k)) = n
                 /\ cellsOf(k) \subseteq all
           /\ \A r \in 0..(n - 1) : cellsOf(r + 1) = {i \in all : i \div n = r}
           /\ \A c \in 0..(n - 1) : cellsOf(n + c + 1) = {i \in all : i % n = c}
           /\ cellsOf(2 * n + 1) = {i \in all : i \div n = i % n}
           /\ cellsOf(2 * n + 2) = {i \in all : (i \div n) + (i % n) = n - 1}

C11_WinLines ==
    /\ []C11_Shape
    /\ [][pc = "constructed" => board'.winLines = board.winLines]_vars

C11_Witness ==
    /\ pc = "constructed"
    /\ board.size = MaxSize
    /\ numNonEmpty(board) = MaxMarks
    /\ board.winLines[2 * MaxSize + 2][1] = MaxSize - 1

\* the number of win lines of b that hold index i
linesThrough(b, i) ==
    Cardinality({k \in 1..Len(b.winLines) :
                    \E j \in 1..Len(b.winLines[k]) : b.winLines[k][j] = i})

\* C12 as stated: every index of a constructed board lies on exactly 4 of
\* its win lines.
C12_Original ==
    pc = "constructed" =>
        \A i \in DOMAIN board.cells : linesThrough(board, i) = 4

\* C12: every index of a constructed board lies on its row, its column and
\* each diagonal it is on: 2 lines, plus 1 on the main diagonal, plus 1 on
\* the anti-diagonal; only the centre of an odd-sized board reaches 4.
C12_LinesPerIndex ==
    pc = "constructed" =>
        LET n == board.size
        IN \A i \in DOMAIN board.cells :
              LET r == i \div n
                  c == i % n
                  onMain == IF r = c THEN 1 ELSE 0
                  onAnti == IF r + c = n - 1 THEN 1 ELSE 0
              IN /\ linesThrough(board, i) = 2 + onMain + onAnti
                 /\ linesThrough(board, i) = 4 <=> (n % 2 = 1 /\ r = n \div 2 /\ c = n \div 2)

C12_Witness ==
    /\ pc = "constructed"
    /\ board.size = MinSize
    /\ numNonEmpty(board) = 1
    /\ linesThrough(board, 4) = 4
    /\ linesThrough(board, 0) = 3
    /\ linesThrough(board, 1) = 2

\* the cells of the k-th win line of b
lineCells(b, k) == {b.winLines[k][j] : j \in 1..Len(b.winLines[k])}

pureLines(b, symbol, k) ==
    Cardinality({l \in 1..Len(b.winLines) :
        /\ Cardinality({j \in 1..b.size : b.cells[b.winLines[l][j]] = symbol}) = k
        /\ Cardinality({j \in 1..b.size : b.cells[b.winLines[l][j]] = EMPTY}) = b.size - k})

\* the value of a line of a size-n board with k >= 1 cells of one symbol and
\* no cell of the other, for the tiers full / n-1 / n-2 / two or more
tier(n, k, full, nearFull, twoShort, some) ==
    IF k = n THEN full
    ELSE IF k = n - 1 THEN nearFull
    ELSE IF k = n - 2 THEN twoShort
    ELSE IF k >= 2 THEN some
    ELSE 0

RECURSIVE tableSum(_, _)
\* the table summed over the lines that hold k..n cells of one symbol only
tableSum(b, k) ==
    IF k > b.size THEN 0
    ELSE pureLines(b, aiSym, k) * tier(b.size, k, 1000000, 50000, 1000, 10)
         - pureLines(b, humanSym, k) * tier(b.size, k, 1000000, 55000, 2000, 20)
         + tableSum(b, k + 1)

\* C14: evaluateBoard returns the sum over the win lines of the table: 0 for
\* a line with both symbols or with neither; for a line with k >= 1 engine
\* cells only +1,000,000 / +50,000 / +1,000 / +10 / 0 for k = n, n-1, n-2,
\* >= 2, else; for opponent cells only -1,000,000 / -55,000 / -2,000 / -20
\* / 0; and 0 on the empty board.
C14_EvaluateTable ==
    call.op = "evaluateBoard" =>
        /\ call.ret = tableSum(board, 1)
        /\ numNonEmpty(board) = 0 => call.ret = 0

C14_Witness ==
    /\ call.op = "evaluateBoard"
    /\ board.size = MaxSize
    /\ pureLines(board, humanSym, MaxSize - 1) = 2 * MaxSize + 2
    /\ call.ret = -770000

\* the empty cells of b that would complete a win line for symbol
winningCells(b, symbol) == {i \in emptySet(b) : hasLine(set(b, i, symbol), symbol)}

\* C15: in a game on the size-3 board, whenever the engine is to move, no one
\* has won, and some empty cell would complete a win line for the engine,
\* the engine's move completes a win line: checkWinner is the engine's
\* symbol right after the move.
C15_ImmediateWinTaken ==
    [][(/\ pc = "loop"
        /\ currentPlayer = "ai"
        /\ checkWinner(board) = NOWINNER
        /\ winningCells(board, aiSym) # {})
       => checkWinner(board') = aiSym]_vars

RECURSIVE plainMinimax(_, _, _, _)
\* the reference search: minimax's terminal checks, depth cutoff and
\* evaluator, every empty cell tried, no window and no cutoff
plainMinimax(eng, b, depth, isMaximizing) ==
    LET result == checkWinner(b)
    IN IF result = eng.aiSymbol THEN WIN_SCORE
       ELSE IF result = eng.humanSymbol THEN LOSS_SCORE
       ELSE IF result = DRAW THEN 0
       ELSE IF depth = 0 THEN evaluateBoard(eng, b)
       ELSE LET symbol == IF isMaximizing THEN eng.aiSymbol ELSE eng.humanSymbol
                vals == {plainMinimax(eng, set(b, i, symbol), depth - 1, ~isMaximizing) :
                            i \in emptySet(b)}
            IN IF isMaximizing
               THEN CHOOSE v \in vals : \A w \in vals : w <= v
               ELSE CHOOSE v \in vals : \A w \in vals : v <= w

\* the reference decision: the lowest empty cell whose reference value is
\* the highest, -1 on a full board
plainBestMove(eng, b) ==
    IF emptySet(b) = {} THEN -1
    ELSE LET score == [i \in emptySet(b) |->
                          plainMinimax(eng, set(b, i, eng.aiSymbol), eng.maxDepth, FALSE)]
         IN CHOOSE i \in emptySet(b) :
               /\ \A j \in emptySet(b) : score[j] <= score[i]
               /\ \A j \in emptySet(b) : j < i => score[j] < score[i]

\* C16: minimax called with the window INT_MIN..INT_MAX returns the value of
\* the reference search without cutoff, for either side to move, and
\* getBestMove returns the cell the reference search decides on.
C16_PruningKeepsValue ==
    /\ (call.op = "minimax" /\ call.alpha = INT_MIN /\ call.beta = INT_MAX)
          => call.ret = plainMinimax(engine, board, call.arg, call.isMaximizing)
    /\ call.op = "getBestMove" => call.ret = plainBestMove(engine, board)

C16_Witness ==
    /\ call.op = "minimax"
    /\ call.alpha = INT_MIN /\ call.beta = INT_MAX
    /\ ~call.isMaximizing
    /\ call.arg = 100
    /\ Cardinality(emptySet(board)) = MaxSearchEmpty
    /\ call.ret = 0
    /\ \E i \in emptySet(board) :
          plainMinimax(engine, set(board, i, humanSym), 99, TRUE) = WIN_SCORE

\* C17: in a size-3 game, with the depth budget of size 3, every getBestMove
\* call of the driver makes no evaluateBoard call (the recursion never gets
\* to depth 0 on a position without a result), and every score it compares
\* is -1,000,000, 0 or +1,000,000.
C17_FullSolve ==
    (pc = "loop" /\ currentPlayer = "ai" /\ board.size = 3 /\ ~isFull(board)) =>
        /\ getBestMove(engine, board).evals = 0
        /\ \A i \in emptySet(board) :
              scoreOf(engine, board, i) \in {LOSS_SCORE, 0, WIN_SCORE}

C17_Witness ==
    /\ pc = "loop"
    /\ currentPlayer = "ai"
    /\ engine.maxDepth = 100
    /\ numNonEmpty(board) = 1
    /\ board.cells[4] = humanSym
    /\ getBestMove(engine, board).evals = 0
    /\ getBestMove(engine, board).move = 0

\* the symbol the current player writes
symbolOf(player) == IF player = "human" THEN humanSym ELSE aiSym

\* the cells in which two boards differ
changedCells(b1, b2) == {i \in DOMAIN b1.cells : b1.cells[i] # b2.cells[i]}

\* C18: with a human who answers with an empty cell every time, every
\* iteration of the driver can be taken (the engine too answers with an
\* empty cell), it writes the mover's symbol into exactly one cell
\* that is EMPTY at that moment, the turn passes to the other player unless
\* the game stops, the two players' marks never differ by more than one,
\* and the game eventually reports an outcome and stops (so after at most
\* size * size moves).
C18_Terminates ==
    /\ [](pc = "loop" /\ currentPlayer = "ai" /\ ~isFull(board)
            => getBestMove(engine, board).move \in emptySet(board))
    /\ [][/\ pc = "loop"
          /\ \E i \in DOMAIN board.cells :
                /\ changedCells(board, board') = {i}
                /\ board.cells[i] = EMPTY
                /\ board'.cells[i] = symbolOf(currentPlayer)
          /\ numNonEmpty(board') <= board.size * board.size
          /\ numMarked(board', aiSym) - numMarked(board', humanSym) \in {-1, 0, 1}
          /\ pc' = "loop" => currentPlayer' # currentPlayer
          /\ pc' = "done" => message' \in {"AI Wins!", "You Win!", "It's a Draw!",
                                           "It's a Draw! Game Over."}]_vars
    /\ <>[](pc = "done" /\ message # "")

C18_Witness ==
    /\ pc = "done"
    /\ numNonEmpty(board) = board.size * board.size
    /\ message = "It's a Draw!"
    /\ currentPlayer = "human"

\* C19: in every state of a game the two symbols never both hold a complete
\* win line, so every complete line holds the symbol checkWinner returns,
\* whatever the order in which the lines are scanned.
C19_OneWinner ==
    /\ ~(hasLine(board, aiSym) /\ hasLine(board, humanSym))
    /\ \A k \in uniformLines(board) :
          board.cells[board.winLines[k][1]] = checkWinner(board)

C19_Witness ==
    /\ pc = "done"
    /\ uniformLines(board) = {2 * board.size + 2}
    /\ checkWinner(board) = aiSym
    /\ ~isFull(board)

\* the running score of evaluateBoard after its first k win lines
scoreAfter(eng, b, k) == evaluateBoard(eng, b) - sumLines(eng, b, k + 1)

\* C20: on a board without a win line filled by one symbol evaluateBoard
\* returns a value strictly between -1,000,000 and +1,000,000; and on every
\* board its running sum stays within the 32-bit int range.
C20_HeuristicBelowWin ==
    call.op = "evaluateBoard" =>
        /\ uniformLines(board) = {} => (LOSS_SCORE < call.ret /\ call.ret < WIN_SCORE)
        /\ \A k \in 0..Len(board.winLines) :
              INT_MIN <= scoreAfter(engine, board, k) /\ scoreAfter(engine, board, k) <= INT_MAX

C20_Witness ==
    /\ call.op = "evaluateBoard"
    /\ board.size = MaxSize
    /\ uniformLines(board) = {}
    /\ call.ret = (2 * MaxSize + 2) * 50000

====
